---- MODULE Spec2Model ----
(***************************************************************************)
(* Model of src/generate_model.py: the workbook the script writes, sheet   *)
(* by sheet and row by row, with every cell holding the value its formula  *)
(* evaluates to.  Cell values are exact rationals, the label of a header   *)
(* cell, or a spreadsheet error; arithmetic on them follows the            *)
(* spreadsheet's rules (an error operand gives that error, a text operand  *)
(* gives #VALUE!).  The script's own pmt() is modelled with Python's       *)
(* rules (a zero divisor raises ZeroDivisionError).                        *)
(*                                                                         *)
(* Exact rationals stand for the IEEE doubles of the program: identities   *)
(* that hold here hold of the doubles up to rounding.                      *)
(***************************************************************************)
EXTENDS Integers, Sequences, FiniteSets, TLC

\* ------------------------------------------------------------ bounds
\* Largest number of construction months drawn for a run.
MaxBuildMonths == 2
\* Largest number of operating months drawn for a run.
MaxOpsMonths == 3
\* Largest number of periods handed to pmt() in SpecPmt.
MaxPeriods == 4

\* ------------------------------------------------------------ cell values
Abs(i) == IF i < 0 THEN -i ELSE i

RECURSIVE GCD(_, _)
GCD(a, b) == IF b = 0 THEN a ELSE GCD(b, a % b)

\* The rational n/d in lowest terms with a positive denominator.
Ratio(n, d) ==
    LET s == IF d < 0 THEN -1 ELSE 1
        g == GCD(Abs(n), Abs(d))
    IN  [k |-> "num", n |-> (s * n) \div g, d |-> (s * d) \div g]

Number(i) == [k |-> "num", n |-> i, d |-> 1]

\* A header cell (row 1 of a sheet): a text label.
Text == [k |-> "text", n |-> 0, d |-> 1]

ErrValue == [k |-> "#VALUE!", n |-> 0, d |-> 1]
ErrRef   == [k |-> "#REF!",   n |-> 0, d |-> 1]
ErrDiv0  == [k |-> "#DIV/0!", n |-> 0, d |-> 1]

\* Python: the exception pmt() ends with when its divisor is zero.
ZeroDivisionError == [k |-> "ZeroDivisionError", n |-> 0, d |-> 1]

IsNum(a) == a.k = "num"
IsErr(a) == a.k \notin {"num", "text"}

\* The operand rule of a binary spreadsheet operator: the first error
\* operand is the result, a text label that is no number gives #VALUE!.
Operands(a, b, r) ==
    IF IsErr(a) THEN a
    ELSE IF IsErr(b) THEN b
    ELSE IF ~IsNum(a) \/ ~IsNum(b) THEN ErrValue
    ELSE r

RawAdd(a, b) ==
    LET g == GCD(a.d, b.d)
    IN  Ratio(a.n * (b.d \div g) + b.n * (a.d \div g), (a.d \div g) * b.d)

RawMul(a, b) ==
    LET g1 == GCD(Abs(a.n), b.d)
        g2 == GCD(Abs(b.n), a.d)
    IN  Ratio((a.n \div g1) * (b.n \div g2), (a.d \div g2) * (b.d \div g1))

RawNeg(a) == [k |-> "num", n |-> -a.n, d |-> a.d]

RawInv(a) == Ratio(a.d, a.n)

Add(a, b) == Operands(a, b, RawAdd(a, b))
Neg(a)    == IF IsErr(a) THEN a ELSE IF ~IsNum(a) THEN ErrValue ELSE RawNeg(a)
Sub(a, b) == Operands(a, b, RawAdd(a, RawNeg(b)))
Mul(a, b) == Operands(a, b, RawMul(a, b))
Div(a, b) ==
    Operands(a, b, IF b.n = 0 THEN ErrDiv0 ELSE RawMul(a, RawInv(b)))

RECURSIVE RawPow(_, _)
RawPow(a, e) == IF e = 0 THEN Number(1) ELSE RawMul(a, RawPow(a, e - 1))

\* a ^ e for an integer exponent e of either sign.
Pow(a, e) ==
    IF IsErr(a) THEN a
    ELSE IF ~IsNum(a) THEN ErrValue
    ELSE IF e >= 0 THEN RawPow(a, e)
    ELSE IF a.n = 0 THEN ErrDiv0
    ELSE RawPow(RawInv(a), -e)

\* IF(c > 0, x, y): an error condition is the result; a text label
\* compares greater than any number.
IfPositive(c, x, y) ==
    IF IsErr(c) THEN c
    ELSE IF ~IsNum(c) THEN x
    ELSE IF c.n > 0 THEN x ELSE y

\* ------------------------------------------------------------ pmt
\* def pmt(r, n, pv): return r * pv / (1 - (1 + r) ** (-n))
pmt(r, n, pv) ==
    LET base == RawAdd(Number(1), r)
        den  == IF base.n = 0 THEN Number(0)
                ELSE RawAdd(Number(1), RawNeg(RawPow(RawInv(base), n)))
    IN  IF base.n = 0 \/ den.n = 0 THEN ZeroDivisionError
        ELSE RawMul(RawMul(r, pv), RawInv(den))

\* The workbook's PMT(rate, nper, pv), a negative amount for a positive pv.
ExcelPMT(rate, nper, pv) ==
    IF IsErr(rate) THEN rate
    ELSE IF IsErr(pv) THEN pv
    ELSE IF ~IsNum(rate) \/ ~IsNum(pv) THEN ErrValue
    ELSE IF rate.n = 0 THEN Neg(Div(pv, Number(nper)))
    ELSE Neg(Div(Mul(rate, pv), Sub(Number(1), Pow(Add(Number(1), rate), -nper))))

\* ------------------------------------------------------------ state
VARIABLES
    BuildMonths,    \* construction months; COD is the end of this month
    OpsMonths,      \* operating months after COD
    EPC,            \* capital cost paid at COD
    OMBase,         \* O&M monthly cost at COD
    Markup,         \* O&M markup on cost
    Infl_m,         \* monthly O&M inflation
    Town_m,         \* monthly rate of the city financing
    Debt_m,         \* monthly cost of debt
    TaxRate,
    DebtFrac,
    EquityFrac,
    town_payment,   \* the script's own level payments (summary figures)
    debt_payment,
    pc,             \* the part of the script that runs next
    tr,             \* sheet City_Receivable, data rows (Excel row 2 onwards)
    ds,             \* sheet Debt_Schedule
    om,             \* sheet OM
    isf,            \* sheet IS_Monthly
    cf,             \* sheet CF_Monthly
    bs,             \* sheet BS_Monthly
    irr,            \* sheet Levered_DCF_IRR
    lookups,        \* history: the INDEX() evaluations made so far
    call            \* a call of pmt(): its arguments and what it ends with

assumptions == <<BuildMonths, OpsMonths, EPC, OMBase, Markup, Infl_m, Town_m,
                 Debt_m, TaxRate, DebtFrac, EquityFrac>>
sheets == <<tr, ds, om, isf, cf, bs, irr>>
vars == <<assumptions, town_payment, debt_payment, pc, sheets, lookups, call>>

\* The values the assumptions are drawn from.  The monthly rates stand for
\* (1 + EAR) ** (1/12) - 1 of a positive EAR: positive rationals.
EPCValues      == {Number(64)}
OMBaseValues   == {Number(8)}
MarkupValues   == {Ratio(1, 4)}
InflValues     == {Ratio(1, 2)}
TownRates      == {Ratio(1, 2), Ratio(1, 4)}
DebtRates      == {Ratio(1, 2), Number(1)}
TaxRates       == {Ratio(1, 4)}
DebtFractions  == {Ratio(1, 2), Ratio(3, 4)}

None == [k |-> "none", n |-> 0, d |-> 1]

Init ==
    /\ BuildMonths \in 1..MaxBuildMonths
    /\ OpsMonths \in 1..MaxOpsMonths
    /\ EPC \in EPCValues
    /\ OMBase \in OMBaseValues
    /\ Markup \in MarkupValues
    /\ Infl_m \in InflValues
    /\ Town_m \in TownRates
    /\ Debt_m \in DebtRates
    /\ TaxRate \in TaxRates
    /\ DebtFrac \in DebtFractions
    /\ EquityFrac = Sub(Number(1), DebtFrac)
    /\ town_payment = None
    /\ debt_payment = None
    /\ pc = "pmt"
    /\ tr = <<>> /\ ds = <<>> /\ om = <<>> /\ isf = <<>>
    /\ cf = <<>> /\ bs = <<>> /\ irr = <<>>
    /\ lookups = {}
    /\ call = [r |-> None, n |-> 0, pv |-> None, result |-> None]

\* Inputs!B19, the named range PaymentMonths: =$B$3.
PaymentMonths == OpsMonths

\* A mutant of ScheduleRows: the loop and the INDEX ranges end a row early.
ScheduleRows_OneShort == OpsMonths - 1

\* for r in range(2, 242): one data row per operating month.
ScheduleRows == OpsMonths

\* for r in range(2, 266): one data row per calendar month.
StatementRows == BuildMonths + OpsMonths

\* OFFSET(<col>1, rows, 0): the cell `rows` rows below row 1 of the column.
\* Row 1 is the header; Excel row k is data row k - 1.
Offset(sheet, col, rows) ==
    IF rows < 0 THEN ErrRef
    ELSE IF rows = 0 THEN Text
    ELSE IF rows <= Len(sheet) THEN sheet[rows][col]
    ELSE Number(0)

\* INDEX(<sheet>!$<col>$2:$<col>$241, k): the k-th data row of the column.
Index(sheet, col, k) ==
    IF IsErr(k) THEN k
    ELSE IF ~IsNum(k) \/ k.d # 1 \/ k.n = 0 THEN ErrValue
    ELSE IF k.n \in 1..ScheduleRows /\ k.n <= Len(sheet) THEN sheet[k.n][col]
    ELSE ErrRef

Lookup(sheet, month, k) == [by |-> sheet, month |-> month, index |-> k.n]

\* ------------------------------------------------------------ the script
\* town_payment = pmt(Town_m, OpsMonths, EPC)
\* debt_payment = pmt(Debt_m, OpsMonths, EPC * DebtFrac)
ComputePayments ==
    /\ pc = "pmt"
    /\ town_payment' = pmt(Town_m, OpsMonths, EPC)
    /\ debt_payment' = pmt(Debt_m, OpsMonths, RawMul(EPC, DebtFrac))
    /\ pc' = IF ZeroDivisionError \in {town_payment', debt_payment'}
             THEN "raised" ELSE "City_Receivable"
    /\ UNCHANGED <<call, assumptions, sheets, lookups>>

\* The receivable row the formulas of Excel row r evaluate to.
CityReceivableRow(r) ==
    LET B == IF r = 2 THEN EPC ELSE Offset(tr, "End_Receivable", r - 3)
        C == Neg(ExcelPMT(Town_m, PaymentMonths, EPC))
        D == Mul(B, Town_m)
        E == Sub(C, D)
        F == Sub(B, E)
    IN  [OpMonth |-> Number(r - 1), Beg_Receivable |-> B, City_Payment |-> C,
         Interest_Revenue |-> D, Principal |-> E, End_Receivable |-> F]

WriteCityReceivableRow ==
    /\ pc = "City_Receivable"
    /\ Len(tr) < ScheduleRows
    /\ tr' = Append(tr, CityReceivableRow(Len(tr) + 2))
    /\ pc' = IF Len(tr') = ScheduleRows THEN "Debt_Schedule" ELSE pc
    /\ UNCHANGED <<call, assumptions, town_payment, debt_payment, ds, om, isf, cf,
                   bs, irr, lookups>>

\* The debt row the formulas of Excel row r evaluate to.
DebtScheduleRow(r) ==
    LET B == IF r = 2 THEN Mul(EPC, DebtFrac)
             ELSE Offset(ds, "End_Debt", r - 3)
        C == Neg(ExcelPMT(Debt_m, PaymentMonths, Mul(EPC, DebtFrac)))
        D == Mul(B, Debt_m)
        E == Sub(C, D)
        F == Sub(B, E)
    IN  [OpMonth |-> Number(r - 1), Beg_Debt |-> B, Debt_Payment |-> C,
         Interest_Expense |-> D, Principal_Repay |-> E, End_Debt |-> F]

WriteDebtScheduleRow ==
    /\ pc = "Debt_Schedule"
    /\ Len(ds) < ScheduleRows
    /\ ds' = Append(ds, DebtScheduleRow(Len(ds) + 2))
    /\ pc' = IF Len(ds') = ScheduleRows THEN "OM" ELSE pc
    /\ UNCHANGED <<call, assumptions, town_payment, debt_payment, tr, om, isf, cf,
                   bs, irr, lookups>>

\* The O&M row the formulas of Excel row r evaluate to.
OMRow(r) ==
    LET A == Number(r - 1)
        B == Mul(OMBase, Pow(Add(Number(1), Infl_m), A.n - 1))
        C == Mul(B, Add(Number(1), Markup))
        D == Sub(C, B)
    IN  [OpMonth |-> A, OM_Cost |-> B, OM_Revenue |-> C, OM_Margin |-> D]

WriteOMRow ==
    /\ pc = "OM"
    /\ Len(om) < ScheduleRows
    /\ om' = Append(om, OMRow(Len(om) + 2))
    /\ pc' = IF Len(om') = ScheduleRows THEN "IS_Monthly" ELSE pc
    /\ UNCHANGED <<call, assumptions, town_payment, debt_payment, tr, ds, isf, cf,
                   bs, irr, lookups>>

\* A mutant of OpIndex: the COD month counted as the first operating month.
OpIndex_CODIsOperating(A) ==
    IF A.n >= BuildMonths THEN Sub(A, Number(BuildMonths - 1)) ELSE Number(0)

\* IS_Monthly column B: =IF(A{r}>BuildMonths, A{r}-BuildMonths, 0)
OpIndex(A) ==
    IF A.n > BuildMonths THEN Sub(A, Number(BuildMonths)) ELSE Number(0)

\* =IF($B{r}>0, INDEX(<sheet>!<col>, $B{r}), 0)
IndexIfOperating(B, sheet, col) ==
    IfPositive(B, Index(sheet, col, B), Number(0))

\* The income-statement row the formulas of Excel row r evaluate to.
ISRow(r) ==
    LET A == Number(r - 1)
        B == OpIndex(A)
        C == IndexIfOperating(B, tr, "Interest_Revenue")
        D == IndexIfOperating(B, om, "OM_Revenue")
        E == Add(C, D)
        F == IndexIfOperating(B, om, "OM_Cost")
        G == Sub(E, F)
        H == IndexIfOperating(B, ds, "Interest_Expense")
        I == Sub(G, H)
        J == IfPositive(I, Mul(I, TaxRate), Number(0))
        K == Sub(I, J)
    IN  [Month |-> A, OpIndex |-> B, Interest_Revenue |-> C,
         OM_Revenue |-> D, Total_Revenue |-> E, OM_Cost |-> F, EBIT |-> G,
         Debt_Interest_Expense |-> H, EBT |-> I, Tax |-> J, Net_Income |-> K]

\* The INDEX() evaluations of a row whose lookups are guarded by $B{r}>0.
GuardedLookups(sheet, r) ==
    LET B == IF sheet = "IS_Monthly" THEN OpIndex(Number(r - 1))
             ELSE isf[r - 1].OpIndex
    IN  IF IsNum(B) /\ B.n > 0 THEN {Lookup(sheet, r - 1, B)} ELSE {}

WriteISRow ==
    /\ pc = "IS_Monthly"
    /\ Len(isf) < StatementRows
    /\ isf' = Append(isf, ISRow(Len(isf) + 2))
    /\ lookups' = lookups \cup GuardedLookups("IS_Monthly", Len(isf) + 2)
    /\ pc' = IF Len(isf') = StatementRows THEN "CF_Monthly" ELSE pc
    /\ UNCHANGED <<call, assumptions, town_payment, debt_payment, tr, ds, om, cf,
                   bs, irr>>

\* A mutant of AtCOD: the COD amounts are booked one month late.
AtCOD_MonthAfter(A, x) ==
    IF A.n = BuildMonths + 1 THEN x ELSE Number(0)

\* =IF(A{r}=BuildMonths, x, 0)
AtCOD(A, x) == IF A.n = BuildMonths THEN x ELSE Number(0)

\* The cash-flow row the formulas of Excel row r evaluate to.
CFRow(r) ==
    LET A == Number(r - 1)
        ISB == isf[r - 1].OpIndex
        B == Add(isf[r - 1].Net_Income, IndexIfOperating(ISB, tr, "Principal"))
        C == AtCOD(A, Neg(EPC))
        D == Sub(AtCOD(A, Add(Mul(EPC, DebtFrac), Mul(EPC, EquityFrac))),
                 IndexIfOperating(ISB, ds, "Principal_Repay"))
        E == Add(Add(B, C), D)
        F == IF r = 2 THEN E ELSE Add(Offset(cf, "Cash_Balance", r - 3), E)
    IN  [Month |-> A, CFO |-> B, CFI |-> C, CFF |-> D, Net_Change |-> E,
         Cash_Balance |-> F]

WriteCFRow ==
    /\ pc = "CF_Monthly"
    /\ Len(cf) < StatementRows
    /\ cf' = Append(cf, CFRow(Len(cf) + 2))
    /\ lookups' = lookups \cup GuardedLookups("CF_Monthly", Len(cf) + 2)
    /\ pc' = IF Len(cf') = StatementRows THEN "BS_Monthly" ELSE pc
    /\ UNCHANGED <<call, assumptions, town_payment, debt_payment, tr, ds, om, isf,
                   bs, irr>>

\* =IF(A{r}<BuildMonths, 0, IF(A{r}=BuildMonths, atCOD,
\*      IF(IS_Monthly!$B{r}>0, INDEX(<sheet>!<col>, IS_Monthly!$B{r}), 0)))
BalanceAt(A, atCOD, ISB, sheet, col) ==
    IF A.n < BuildMonths THEN Number(0)
    ELSE IF A.n = BuildMonths THEN atCOD
    ELSE IndexIfOperating(ISB, sheet, col)

\* The balance-sheet row the formulas of Excel row r evaluate to.
BSRow(r) ==
    LET A == Number(r - 1)
        ISB == isf[r - 1].OpIndex
        B == cf[r - 1].Cash_Balance
        C == BalanceAt(A, EPC, ISB, tr, "End_Receivable")
        D == Add(B, C)
        E == BalanceAt(A, Mul(EPC, DebtFrac), ISB, ds, "End_Debt")
        F == IF A.n < BuildMonths THEN Number(0) ELSE Mul(EPC, EquityFrac)
        G == IF r = 2 THEN isf[r - 1].Net_Income
             ELSE Add(Offset(bs, "Retained_Earnings", r - 3),
                      isf[r - 1].Net_Income)
        H == Add(F, G)
        I == Add(E, H)
        J == Sub(D, I)
    IN  [Month |-> A, Cash |-> B, Receivable |-> C, Total_Assets |-> D,
         Debt |-> E, Paid_in_Equity |-> F, Retained_Earnings |-> G,
         Total_Eq |-> H, Liab_Eq |-> I, Balance_Check |-> J]

WriteBSRow ==
    /\ pc = "BS_Monthly"
    /\ Len(bs) < StatementRows
    /\ bs' = Append(bs, BSRow(Len(bs) + 2))
    /\ lookups' = lookups \cup
                  IF Len(bs) + 1 > BuildMonths
                  THEN GuardedLookups("BS_Monthly", Len(bs) + 2) ELSE {}
    /\ pc' = IF Len(bs') = StatementRows THEN "Levered_DCF_IRR" ELSE pc
    /\ UNCHANGED <<call, assumptions, town_payment, debt_payment, tr, ds, om, isf,
                   cf, irr>>

\* A mutant of EquityCFRow: the debt principal is not taken off.
EquityCFRow_NoDebtService(r) ==
    LET A == Number(r - 1)
        B == IF A.n = BuildMonths THEN Mul(Neg(EPC), EquityFrac)
             ELSE IF A.n > BuildMonths THEN cf[r - 1].CFO
             ELSE Number(0)
    IN  [Month |-> A, Equity_CF |-> B]

\* The equity cash-flow row the formula of Excel row r evaluates to.
\* =IF(A{r}=BuildMonths, -EPC*EquityFrac, IF(A{r}>BuildMonths,
\*      CF_Monthly!B{r} - INDEX(Debt_Schedule!$E$2:$E$241, IS_Monthly!$B{r}), 0))
EquityCFRow(r) ==
    LET A == Number(r - 1)
        B == IF A.n = BuildMonths THEN Mul(Neg(EPC), EquityFrac)
             ELSE IF A.n > BuildMonths
             THEN Sub(cf[r - 1].CFO,
                      Index(ds, "Principal_Repay", isf[r - 1].OpIndex))
             ELSE Number(0)
    IN  [Month |-> A, Equity_CF |-> B]

WriteEquityCFRow ==
    /\ pc = "Levered_DCF_IRR"
    /\ Len(irr) < StatementRows
    /\ irr' = Append(irr, EquityCFRow(Len(irr) + 2))
    /\ lookups' = lookups \cup
                  IF Len(irr) + 1 > BuildMonths
                  THEN {Lookup("Levered_DCF_IRR", Len(irr) + 1,
                               isf[Len(irr) + 1].OpIndex)}
                  ELSE {}
    /\ pc' = IF Len(irr') = StatementRows THEN "done" ELSE pc
    /\ UNCHANGED <<call, assumptions, town_payment, debt_payment, tr, ds, om, isf,
                   cf, bs>>

Next ==
    \/ ComputePayments
    \/ WriteCityReceivableRow
    \/ WriteDebtScheduleRow
    \/ WriteOMRow
    \/ WriteISRow
    \/ WriteCFRow
    \/ WriteBSRow
    \/ WriteEquityCFRow

Spec == Init /\ [][Next]_vars

\* ------------------------------------------------------------ pmt alone
\* pmt() applied to arguments drawn from small sets, a zero rate included.
PmtRates      == {Number(0), Ratio(1, 4), Ratio(1, 2), Number(1)}
PmtPrincipals == {Number(1), Number(60), Number(64), Number(100)}

InitPmt ==
    /\ BuildMonths = 1 /\ OpsMonths = 1
    /\ EPC = Number(64) /\ OMBase = Number(8)
    /\ Markup = Ratio(1, 4) /\ Infl_m = Ratio(1, 2)
    /\ Town_m = Ratio(1, 2) /\ Debt_m = Ratio(1, 2)
    /\ TaxRate = Ratio(1, 4)
    /\ DebtFrac = Ratio(1, 2) /\ EquityFrac = Ratio(1, 2)
    /\ town_payment = None /\ debt_payment = None
    /\ tr = <<>> /\ ds = <<>> /\ om = <<>> /\ isf = <<>>
    /\ cf = <<>> /\ bs = <<>> /\ irr = <<>>
    /\ lookups = {}
    /\ pc = "call"
    /\ call \in [r : PmtRates, n : 1..MaxPeriods, pv : PmtPrincipals,
                 result : {None}]

CallPmt ==
    /\ pc = "call"
    /\ call' = [call EXCEPT !.result = pmt(call.r, call.n, call.pv)]
    /\ pc' = IF call'.result = ZeroDivisionError THEN "raised" ELSE "returned"
    /\ UNCHANGED <<assumptions, town_payment, debt_payment, sheets, lookups>>

NextPmt == CallPmt

SpecPmt == InitPmt /\ [][NextPmt]_vars

\* ------------------------------------------------------------ properties
Zero == Number(0)

\* The operating month of calendar month m (m > BuildMonths).
OpMonthOf(m) == m - BuildMonths

\* |x| <= 1e-6 * principal, for a numeric x.
WithinTolerance(x, principal) ==
    /\ IsNum(x)
    /\ LET q == RawMul(x, RawInv(principal))
       IN  Abs(q.n) <= q.d \div 1000000

\* C1: in every balance-sheet row written, Total_Assets = Cash + Receivable
\* with Cash the cumulative cash balance of the cash-flow table, and
\* Balance_Check = Total_Assets - (Debt + Paid_in_Equity + Retained_Earnings)
\* is zero.
C1_BalanceCheckIsZero ==
    \A m \in 1..Len(bs) :
        /\ bs[m].Cash = cf[m].Cash_Balance
        /\ bs[m].Total_Assets = Add(bs[m].Cash, bs[m].Receivable)
        /\ bs[m].Balance_Check =
               Sub(bs[m].Total_Assets,
                   Add(bs[m].Debt,
                       Add(bs[m].Paid_in_Equity, bs[m].Retained_Earnings)))
        /\ bs[m].Balance_Check = Zero

\* The recurrence of one amortization table, rows given as
\* <<beginning, payment, interest, principal, ending>>.
AmortizationChained(rows, rate, first) ==
    \A n \in 1..Len(rows) :
        /\ rows[n][3] = Mul(rows[n][1], rate)
        /\ rows[n][4] = Sub(rows[n][2], rows[n][3])
        /\ rows[n][5] = Sub(rows[n][1], rows[n][4])
        /\ rows[n][2] = rows[1][2]
        /\ n = 1 => rows[n][1] = first
        /\ n > 1 => rows[n][1] = rows[n - 1][5]

ReceivableRows ==
    [n \in 1..Len(tr) |->
        <<tr[n].Beg_Receivable, tr[n].City_Payment, tr[n].Interest_Revenue,
          tr[n].Principal, tr[n].End_Receivable>>]

DebtRows ==
    [n \in 1..Len(ds) |->
        <<ds[n].Beg_Debt, ds[n].Debt_Payment, ds[n].Interest_Expense,
          ds[n].Principal_Repay, ds[n].End_Debt>>]

\* C2: in City_Receivable and in Debt_Schedule every row has interest =
\* beginning x rate, principal = payment - interest, ending = beginning -
\* principal and the same payment; month 1 begins at EPC (EPC x DebtFrac),
\* and month n+1 begins at the ending balance of month n.
C2_SchedulesChained ==
    /\ AmortizationChained(ReceivableRows, Town_m, EPC)
    /\ AmortizationChained(DebtRows, Debt_m, Mul(EPC, DebtFrac))

\* C3: once a schedule has its OpsMonths rows, the ending balance of its
\* last row is zero within 1e-6 of the principal: the receivable and the
\* debt are fully repaid at operating month OpsMonths.
C3_FinalBalanceIsZero ==
    /\ Len(tr) = OpsMonths =>
           WithinTolerance(tr[OpsMonths].End_Receivable, EPC)
    /\ Len(ds) = OpsMonths =>
           WithinTolerance(ds[OpsMonths].End_Debt, Mul(EPC, DebtFrac))

\* C4: an income-statement row of a month m <= BuildMonths has operating
\* index 0 and every revenue, cost and income field zero; a row of a month
\* m > BuildMonths has operating index m - BuildMonths, and its interest
\* revenue, O&M revenue, O&M cost and debt interest expense are the cells
\* of the receivable, O&M and debt schedule rows at that index.
C4_IncomeStatementRows ==
    \A m \in 1..Len(isf) :
        IF m <= BuildMonths
        THEN /\ isf[m].OpIndex = Zero
             /\ isf[m].Interest_Revenue = Zero
             /\ isf[m].OM_Revenue = Zero
             /\ isf[m].Total_Revenue = Zero
             /\ isf[m].OM_Cost = Zero
             /\ isf[m].EBIT = Zero
             /\ isf[m].Debt_Interest_Expense = Zero
             /\ isf[m].EBT = Zero
             /\ isf[m].Tax = Zero
             /\ isf[m].Net_Income = Zero
        ELSE /\ isf[m].OpIndex = Number(OpMonthOf(m))
             /\ isf[m].Interest_Revenue = tr[OpMonthOf(m)].Interest_Revenue
             /\ isf[m].OM_Revenue = om[OpMonthOf(m)].OM_Revenue
             /\ isf[m].OM_Cost = om[OpMonthOf(m)].OM_Cost
             /\ isf[m].Debt_Interest_Expense =
                    ds[OpMonthOf(m)].Interest_Expense

\* C4 witness: the income statement is complete, with at least two build
\* months, and an operating month shows a positive interest revenue and a
\* positive debt interest expense taken from the schedules.
C4_Witness ==
    /\ pc = "done"
    /\ BuildMonths >= 2
    /\ \E m \in BuildMonths + 1..Len(isf) :
           /\ IsNum(isf[m].Interest_Revenue) /\ isf[m].Interest_Revenue.n > 0
           /\ IsNum(isf[m].Debt_Interest_Expense)
           /\ isf[m].Debt_Interest_Expense.n > 0
           /\ isf[m].OM_Cost.n > 0

\* C5: in every income-statement row, tax = EBT x TaxRate when EBT > 0 and
\* tax = 0 otherwise; tax is never negative, and a row with negative EBT has
\* tax 0 and net income equal to EBT.
C5_TaxOnPositiveEBTOnly ==
    \A m \in 1..Len(isf) :
        /\ isf[m].Tax = IF IsNum(isf[m].EBT) /\ isf[m].EBT.n > 0
                        THEN Mul(isf[m].EBT, TaxRate) ELSE Zero
        /\ IsNum(isf[m].Tax) /\ isf[m].Tax.n >= 0
        /\ (IsNum(isf[m].EBT) /\ isf[m].EBT.n < 0) =>
               isf[m].Net_Income = isf[m].EBT

\* C6: in every cash-flow row, investing cash flow is -EPC in the COD month
\* and 0 otherwise; financing cash flow is +EPC in the COD month, minus the
\* debt principal of the month in an operating month, and 0 before COD;
\* operating cash flow is net income plus the receivable principal collected
\* in the month (none before operations start).
C6_CashFlowRows ==
    \A m \in 1..Len(cf) :
        /\ cf[m].CFI = IF m = BuildMonths THEN Neg(EPC) ELSE Zero
        /\ cf[m].CFF = IF m < BuildMonths THEN Zero
                       ELSE IF m = BuildMonths THEN EPC
                       ELSE Neg(ds[OpMonthOf(m)].Principal_Repay)
        /\ cf[m].CFO = Add(isf[m].Net_Income,
                           IF m > BuildMonths
                           THEN tr[OpMonthOf(m)].Principal ELSE Zero)

\* C6 witness: the cash-flow table is complete, a build month precedes COD,
\* the COD month shows the outlay and its funding, and an operating month
\* shows a nonzero debt principal repaid and receivable principal collected.
C6_Witness ==
    /\ pc = "done"
    /\ BuildMonths >= 2
    /\ cf[BuildMonths].CFI = Neg(EPC)
    /\ cf[BuildMonths].CFF = EPC
    /\ \E m \in BuildMonths + 1..Len(cf) :
           /\ IsNum(cf[m].CFF) /\ cf[m].CFF.n < 0
           /\ IsNum(cf[m].CFO) /\ cf[m].CFO.n # 0
           /\ tr[OpMonthOf(m)].Principal.n > 0

\* C7: the levered equity cash flow is 0 before COD, -EPC x EquityFrac in
\* the COD month, and after COD the operating cash flow of the month minus
\* the debt principal repaid in the month.
C7_EquityCashFlowRows ==
    \A m \in 1..Len(irr) :
        irr[m].Equity_CF =
            IF m < BuildMonths THEN Zero
            ELSE IF m = BuildMonths THEN Neg(Mul(EPC, EquityFrac))
            ELSE Sub(cf[m].CFO, ds[OpMonthOf(m)].Principal_Repay)

\* C7 witness: the equity table is complete, a month precedes COD, the COD
\* month shows the equity outlay, and an operating month shows a numeric
\* equity cash flow that differs from its operating cash flow.
C7_Witness ==
    /\ pc = "done"
    /\ BuildMonths >= 2
    /\ irr[BuildMonths].Equity_CF.n < 0
    /\ \E m \in BuildMonths + 1..Len(irr) :
           /\ IsNum(irr[m].Equity_CF)
           /\ irr[m].Equity_CF # cf[m].CFO

\* C8: the cash balance of month 1 is its net change, and the cash balance
\* of every later month is the balance of the month before plus the net
\* change of the month, where net change = operating + investing +
\* financing cash flow.
C8_CashBalanceIsRunningSum ==
    \A m \in 1..Len(cf) :
        /\ cf[m].Net_Change = Add(Add(cf[m].CFO, cf[m].CFI), cf[m].CFF)
        /\ m = 1 => cf[m].Cash_Balance = cf[m].Net_Change
        /\ m > 1 => cf[m].Cash_Balance =
                        Add(cf[m - 1].Cash_Balance, cf[m].Net_Change)

\* C9: a call of pmt with a rate of exactly zero does not divide by zero:
\* it returns principal / periods.
C9_ZeroRatePayment ==
    (pc \in {"returned", "raised"} /\ call.r = Zero) =>
        /\ call.result # ZeroDivisionError
        /\ call.result = Div(call.pv, Number(call.n))

TableSheets == {"IS_Monthly", "CF_Monthly", "BS_Monthly", "Levered_DCF_IRR"}

\* C10: no schedule grows beyond OpsMonths rows and no statement table
\* beyond BuildMonths + OpsMonths rows, and when the workbook is complete
\* they have exactly that many; every schedule lookup uses an operating
\* index in 1..OpsMonths; and in the complete workbook each table looks up
\* every operating month from exactly one calendar month.
C10_RowsAndLookupsInRange ==
    /\ \A s \in {tr, ds, om} : Len(s) <= OpsMonths
    /\ \A s \in {isf, cf, bs, irr} : Len(s) <= BuildMonths + OpsMonths
    /\ \A l \in lookups : l.index \in 1..OpsMonths
    /\ pc = "done" =>
           /\ Len(tr) = OpsMonths /\ Len(ds) = OpsMonths /\ Len(om) = OpsMonths
           /\ Len(isf) = BuildMonths + OpsMonths
           /\ Len(cf) = BuildMonths + OpsMonths
           /\ Len(bs) = BuildMonths + OpsMonths
           /\ Len(irr) = BuildMonths + OpsMonths
           /\ \A t \in TableSheets : \A n \in 1..OpsMonths :
                  Cardinality({l \in lookups : l.by = t /\ l.index = n}) = 1

\* C10 witness: a complete workbook with several build and operating
\* months, whose last operating month was looked up by the last calendar
\* month of every table.
C10_Witness ==
    /\ pc = "done"
    /\ BuildMonths >= 2
    /\ OpsMonths >= 3
    /\ \A t \in TableSheets :
           Lookup(t, BuildMonths + OpsMonths, Number(OpsMonths)) \in lookups

====
